---- MODULE Spec2Model ----
(***************************************************************************)
(* Model of the rollup HTTP server (rollup-http-server/src/http_service.rs).*)
(*                                                                         *)
(* Rollup side: the six handlers voucher, notice, report, gio, exception   *)
(* and finish, each an async function that first locks its worker's        *)
(* Mutex<Context> and then the process-wide Arc<Mutex<RollupFd>>, performs *)
(* its device transaction and drops both guards when it returns or when    *)
(* its future is dropped.                                                  *)
(*                                                                         *)
(* Raw-state side: raw_state_read, raw_state_write and raw_state_size over  *)
(* the state drive; they take no lock.                                     *)
(*                                                                         *)
(* The DApp is either a set of concurrent connections (Spec, LiveSpec) or  *)
(* one sequential client whose last response is kept in `last` (SeqSpec).  *)
(* MixSpec runs raw-state requests beside the rollup handlers.             *)
(***************************************************************************)
EXTENDS Integers, Sequences, FiniteSets, TLC

VARIABLES
    client,          \* "concurrent" or "sequential": how the DApp calls
    pc,              \* pc[h]: where handler h's future stands
    req,             \* req[h]: the request h serves
    trace,           \* trace[h]: what h did so far (locks taken, device calls)
    last,            \* the last request a sequential client got answered
    context_lock,    \* context_lock[w]: holder of worker w's Mutex<Context>
    rollup_fd_lock,  \* holder of the shared Mutex<RollupFd>
    dev_in_flight,   \* handlers with a device transaction in progress
    voucher_count,   \* device: vouchers written in the current cycle
    notice_count,    \* device: notices written in the current cycle
    in_cycle,        \* a request delivered by finish is being processed
    cycle_indices,   \* indices answered to vouchers in the current cycle
    drive,           \* state drive: its bytes (its capacity is Len(drive))
    raw,             \* the last raw-state request and its outcome
    written          \* the last write that was copied into the drive

rawVars == <<drive, raw, written>>
rollupVars == <<client, pc, req, trace, last, context_lock, rollup_fd_lock,
                dev_in_flight, voucher_count, notice_count, in_cycle,
                cycle_indices>>
vars == <<client, pc, req, trace, last, context_lock, rollup_fd_lock,
          dev_in_flight, voucher_count, notice_count, in_cycle, cycle_indices,
          drive, raw, written>>

(***************************************************************************)
(* Bounds                                                                  *)
(***************************************************************************)
\* connections served at once
NumHandlers == 3
\* HTTP workers, each with its own Data<Mutex<Context>>: two connections each
NumWorkers == (NumHandlers + 1) \div 2
\* voucher and notice writes the device takes in one cycle
MaxIndex == 2

Handlers == 1..NumHandlers
Workers == 1..NumWorkers

\* the worker a connection was accepted by
WorkerOf(h) == ((h - 1) % NumWorkers) + 1

\* an unlocked Mutex
NoHolder == 0

(***************************************************************************)
(* Request bodies                                                          *)
(***************************************************************************)
\* rollup::CARTESI_ROLLUP_ADDRESS_SIZE, bytes of an address
CARTESI_ROLLUP_ADDRESS_SIZE == 20

Rep(c, n) == [i \in 1..n |-> c]

AddressLen == CARTESI_ROLLUP_ADDRESS_SIZE * 2 + 2

HexDest == <<"0", "x">> \o Rep("a", AddressLen - 2)
NonHexDest == <<"0", "x">> \o Rep("a", AddressLen - 3) \o <<"g">>
ShortDest == <<"0", "x">> \o Rep("a", AddressLen - 3)
LongDest == <<"0", "x">> \o Rep("a", AddressLen - 1)
NoPrefixDest == Rep("a", AddressLen)
UpperPrefixDest == <<"0", "X">> \o Rep("a", AddressLen - 2)

\* a sequential client sends every shape, concurrent ones a good and a bad one
Destinations ==
    IF client = "sequential"
    THEN {HexDest, NonHexDest, ShortDest, LongDest, NoPrefixDest, UpperPrefixDest}
    ELSE {HexDest, ShortDest}

Statuses ==
    IF client = "sequential" THEN {"accept", "reject", "Accept", ""}
    ELSE {"accept", "Accept"}

\* next_request_type values the device hands back
Discriminators == {0, 1, 2}

StartsWith(s, p) == Len(s) >= Len(p) /\ SubSeq(s, 1, Len(p)) = p

\* the check with the length comparison forgotten
AddressValidPrefixOnly(destination) == StartsWith(destination, <<"0", "x">>)

\* voucher: the destination passes the handler's address check
AddressValid(destination) ==
    ~ (Len(destination) # AddressLen \/ ~ StartsWith(destination, <<"0", "x">>))

\* finish: the match on finish.status
StatusValid(status) == status \in {"accept", "reject"}

\* the match arms swapped
AcceptOfSwapped(status) == IF status = "accept" THEN "false" ELSE "true"

AcceptOf(status) == IF status = "accept" THEN "true" ELSE "false"

NoReq == [kind |-> "none", destination |-> <<>>, status |-> ""]
NoTrace == [acq |-> 0, calls |-> 0, accept |-> "none", disc |-> -1,
            read |-> "none", dev |-> "none", dev_index |-> -1]
NoResp == [code |-> 0, index |-> -1, request_type |-> ""]
NoLast == [req |-> NoReq, resp |-> NoResp, trace |-> NoTrace,
           after_failure |-> FALSE]

\* no raw-state request yet
NoRaw == [op |-> "none", offset |-> 0, size |-> 0, payload |-> <<>>,
          mode |-> "none", env_ok |-> FALSE, fault |-> "none",
          measured |-> FALSE, mapped |-> FALSE, with_device |-> FALSE,
          code |-> 0, outcome |-> "none", copied |-> FALSE, flushed |-> FALSE,
          body |-> <<>>, answer |-> -1]

\* nothing was written yet
NoWrite == [offset |-> 0, body |-> <<>>, done |-> FALSE, ok |-> FALSE]

HttpResponse(code) == [code |-> code, index |-> -1, request_type |-> ""]

IndexResponse(i) == [code |-> 201, index |-> i, request_type |-> ""]

\* the two variants mapped to each other's request_type
RollupHttpRequestSwapped(disc) ==
    [code |-> 200, index |-> -1,
     request_type |-> IF disc = 0 THEN "inspect_state" ELSE "advance_state"]

RollupHttpRequest(disc) ==
    [code |-> 200, index |-> -1,
     request_type |-> IF disc = 0 THEN "advance_state" ELSE "inspect_state"]

(***************************************************************************)
(* The device (crate::rollup and the kernel behind it)                     *)
(***************************************************************************)
\* the payload read handle_rollup_requests issues for a discriminator
ReadOf(disc) ==
    CASE disc = 0 -> "advance"
      [] disc = 1 -> "inspect"
      [] OTHER -> "none"

\* the index the device assigns to the next write of a kind
DeviceIndex(kind) == IF kind = "voucher" THEN voucher_count ELSE notice_count

\* what a successful write of a kind returns: the index, or nothing
DeviceWrite(kind) ==
    IF kind \in {"voucher", "notice"} THEN DeviceIndex(kind) ELSE -1

\* the device can still take a write of this kind in this cycle
DeviceRoom(kind) ==
    kind \in {"voucher", "notice"} => voucher_count + notice_count < MaxIndex

(***************************************************************************)
(* Locks: async_mutex::Mutex, guards dropped at the end of the handler     *)
(***************************************************************************)
ContextFree(w) == context_lock[w] = NoHolder

\* the device used without waiting for the shared lock
RollupFdNotAwaited == TRUE

RollupFdFree == rollup_fd_lock = NoHolder

\* the Context guard outlives the handler
ContextLeaked(h) == context_lock

ContextAfterDrop(h) ==
    [w \in Workers |-> IF context_lock[w] = h THEN NoHolder ELSE context_lock[w]]

\* the rollup_fd guard outlives the handler
RollupFdLeaked(h) == rollup_fd_lock

RollupFdAfterDrop(h) == IF rollup_fd_lock = h THEN NoHolder ELSE rollup_fd_lock

\* the guard taken as a temporary of the perform_rollup_finish_request call
RollupFdDroppedAfterFinishRequest(h) == NoHolder

\* finish binds the rollup_fd guard to a local that lives to the end of the
\* handler: the lock is still held after perform_rollup_finish_request.
RollupFdAfterFinishRequest(h) == rollup_fd_lock

\* the endpoint's previous request, the last one answered, failed in the
\* device
AfterFailure(kind) == last.req.kind = kind /\ last.trace.dev = "error"

\* The handler ends with response r (NoResp: none was sent): both guards are
\* dropped and the connection is free for its next request.
Return(h, r, t) ==
    /\ pc' = [pc EXCEPT ![h] = "idle"]
    /\ req' = [req EXCEPT ![h] = NoReq]
    /\ trace' = [trace EXCEPT ![h] = NoTrace]
    /\ last' = IF client = "sequential"
               THEN [req |-> req[h], resp |-> r, trace |-> t,
                     after_failure |-> AfterFailure(req[h].kind)]
               ELSE last
    /\ context_lock' = ContextAfterDrop(h)
    /\ rollup_fd_lock' = RollupFdAfterDrop(h)
    /\ dev_in_flight' = dev_in_flight \ {h}

(***************************************************************************)
(* Handlers, up to their first await                                       *)
(***************************************************************************)
\* a sequential client sends its next request after the previous one ended
Serve(h) ==
    /\ pc[h] = "idle"
    /\ client = "sequential" => \A g \in Handlers : pc[g] = "idle"

BadRequest(h, r) ==
    /\ last' = IF client = "sequential"
               THEN [req |-> r, resp |-> HttpResponse(400), trace |-> trace[h],
                     after_failure |-> AfterFailure(r.kind)]
               ELSE last
    /\ UNCHANGED <<pc, req>>

Proceed(h, r) ==
    /\ pc' = [pc EXCEPT ![h] = "lock_context"]
    /\ req' = [req EXCEPT ![h] = r]
    /\ UNCHANGED last

voucher(h, destination) ==
    LET r == [kind |-> "voucher", destination |-> destination, status |-> ""]
    IN  /\ Serve(h)
        /\ IF AddressValid(destination) THEN Proceed(h, r) ELSE BadRequest(h, r)
        /\ UNCHANGED <<client, trace, context_lock, rollup_fd_lock,
                       dev_in_flight, voucher_count, notice_count, in_cycle,
                       cycle_indices, rawVars>>

Recorder(h, kind) ==
    /\ Serve(h)
    /\ Proceed(h, [kind |-> kind, destination |-> <<>>, status |-> ""])
    /\ UNCHANGED <<client, trace, context_lock, rollup_fd_lock, dev_in_flight,
                   voucher_count, notice_count, in_cycle, cycle_indices,
                   rawVars>>

notice(h) == Recorder(h, "notice")

report(h) == Recorder(h, "report")

gio(h) == Recorder(h, "gio")

exception(h) == Recorder(h, "exception")

finish(h, status) ==
    LET r == [kind |-> "finish", destination |-> <<>>, status |-> status]
    IN  /\ Serve(h)
        /\ IF StatusValid(status) THEN Proceed(h, r) ELSE BadRequest(h, r)
        /\ UNCHANGED <<client, trace, context_lock, rollup_fd_lock,
                       dev_in_flight, voucher_count, notice_count, in_cycle,
                       cycle_indices, rawVars>>

(***************************************************************************)
(* data.lock().await and context.rollup_fd.lock().await                    *)
(***************************************************************************)
LockContext(h) ==
    /\ pc[h] = "lock_context"
    /\ ContextFree(WorkerOf(h))
    /\ context_lock' = [context_lock EXCEPT ![WorkerOf(h)] = h]
    /\ pc' = [pc EXCEPT ![h] = "lock_rollup_fd"]
    /\ trace' = [trace EXCEPT ![h].acq = @ + 1]
    /\ UNCHANGED <<client, req, last, rollup_fd_lock, dev_in_flight,
                   voucher_count, notice_count, in_cycle, cycle_indices,
                   rawVars>>

\* The rollup_fd guard is taken and the device call is issued with it: a
\* recorder's write, or finish's perform_rollup_finish_request(accept).
LockRollupFd(h) ==
    /\ pc[h] = "lock_rollup_fd"
    /\ RollupFdFree
    /\ rollup_fd_lock' = h
    /\ dev_in_flight' = dev_in_flight \cup {h}
    /\ IF req[h].kind = "finish"
       THEN /\ pc' = [pc EXCEPT ![h] = "finish_request"]
            /\ trace' = [trace EXCEPT ![h].acq = @ + 1, ![h].calls = @ + 1,
                                      ![h].accept = AcceptOf(req[h].status)]
            /\ in_cycle' = FALSE
            /\ cycle_indices' = <<>>
       ELSE /\ pc' = [pc EXCEPT ![h] = "device"]
            /\ trace' = [trace EXCEPT ![h].acq = @ + 1, ![h].calls = @ + 1]
            /\ UNCHANGED <<in_cycle, cycle_indices>>
    /\ UNCHANGED <<client, req, last, context_lock, voucher_count,
                   notice_count, rawVars>>

(***************************************************************************)
(* Recorders: the device write returns, the response is built              *)
(***************************************************************************)
\* every recorder answered as report is
RecorderOkAccepted(h) == HttpResponse(202)

\* the voucher answered with the notice counter
RecorderOkNoticeIndex(h) ==
    CASE req[h].kind \in {"voucher", "notice"} -> IndexResponse(notice_count)
      [] OTHER -> HttpResponse(202)

RecorderOk(h) ==
    CASE req[h].kind \in {"voucher", "notice"} ->
             IndexResponse(DeviceIndex(req[h].kind))
      [] OTHER -> HttpResponse(202)

DeviceReturn(h, ok) ==
    /\ pc[h] = "device"
    /\ ok => DeviceRoom(req[h].kind)
    /\ Return(h, IF ok THEN RecorderOk(h) ELSE HttpResponse(400),
              [trace[h] EXCEPT !.dev = IF ok THEN "ok" ELSE "error",
                               !.dev_index = IF ok THEN DeviceWrite(req[h].kind)
                                             ELSE -1])
    /\ voucher_count' =
           IF ok /\ req[h].kind = "voucher" THEN voucher_count + 1
           ELSE voucher_count
    /\ notice_count' =
           IF ok /\ req[h].kind = "notice" THEN notice_count + 1
           ELSE notice_count
    /\ cycle_indices' =
           IF ok /\ req[h].kind = "voucher" /\ in_cycle
           THEN Append(cycle_indices, RecorderOk(h).index)
           ELSE cycle_indices
    /\ UNCHANGED <<client, in_cycle, rawVars>>

(***************************************************************************)
(* finish: perform_rollup_finish_request, then handle_rollup_requests      *)
(***************************************************************************)
\* handle_rollup_requests given a fresh context.rollup_fd.lock().await
FinishRelocksRollupFd(h) == "lock_rollup_fd"

\* finish goes on to handle_rollup_requests with the guard it holds
AfterFinishRequest(h) == "handle_requests"

\* The node enqueues the next request: the finish transaction returns its
\* discriminator and the device starts a new cycle.
FinishReturn(h, disc) ==
    /\ pc[h] = "finish_request"
    /\ pc' = [pc EXCEPT ![h] = AfterFinishRequest(h)]
    /\ trace' = [trace EXCEPT ![h].disc = disc]
    /\ rollup_fd_lock' = RollupFdAfterFinishRequest(h)
    /\ voucher_count' = 0
    /\ notice_count' = 0
    /\ in_cycle' = (disc \in {0, 1})
    /\ cycle_indices' = <<>>
    /\ UNCHANGED <<client, req, last, context_lock, dev_in_flight, rawVars>>

\* The finish transaction fails; the device may or may not have moved on.
FinishError(h, moved) ==
    /\ pc[h] = "finish_request"
    /\ Return(h, HttpResponse(400), [trace[h] EXCEPT !.dev = "error"])
    /\ voucher_count' = IF moved THEN 0 ELSE voucher_count
    /\ notice_count' = IF moved THEN 0 ELSE notice_count
    /\ UNCHANGED <<client, in_cycle, cycle_indices, rawVars>>

\* handle_rollup_requests reads the payload of the announced kind, or fails
\* on an unknown discriminator without reading.
HandleRollupRequests(h, ok) ==
    /\ pc[h] = "handle_requests"
    /\ LET disc == trace[h].disc
           read == ReadOf(disc)
       IN  IF read = "none"
           THEN /\ ok = FALSE
                /\ Return(h, HttpResponse(400),
                          [trace[h] EXCEPT !.dev = "error"])
           ELSE Return(h,
                       IF ok THEN RollupHttpRequest(disc) ELSE HttpResponse(400),
                       [trace[h] EXCEPT !.calls = @ + 1, !.read = read,
                                        !.dev = IF ok THEN "ok" ELSE "error"])
    /\ UNCHANGED <<client, voucher_count, notice_count, in_cycle,
                   cycle_indices, rawVars>>

(***************************************************************************)
(* The client disconnects while the handler is suspended: its future is    *)
(* dropped, and with it the guards it holds.                               *)
(***************************************************************************)
Suspended(h) ==
    pc[h] \in {"lock_context", "lock_rollup_fd", "finish_request",
               "handle_requests"}

Cancel(h, moved) ==
    /\ Suspended(h)
    /\ moved => pc[h] = "finish_request"
    /\ Return(h, NoResp, trace[h])
    /\ voucher_count' = IF moved THEN 0 ELSE voucher_count
    /\ notice_count' = IF moved THEN 0 ELSE notice_count
    /\ UNCHANGED <<client, in_cycle, cycle_indices, rawVars>>

(***************************************************************************)
(* Rollup specifications                                                   *)
(***************************************************************************)
RollupInit ==
    /\ pc = [h \in Handlers |-> "idle"]
    /\ req = [h \in Handlers |-> NoReq]
    /\ trace = [h \in Handlers |-> NoTrace]
    /\ last = NoLast
    /\ context_lock = [w \in Workers |-> NoHolder]
    /\ rollup_fd_lock = NoHolder
    /\ dev_in_flight = {}
    /\ voucher_count = 0
    /\ notice_count = 0
    /\ in_cycle = FALSE
    /\ cycle_indices = <<>>

Init ==
    /\ client = "concurrent"
    /\ RollupInit
    /\ drive = <<>>
    /\ raw = NoRaw
    /\ written = NoWrite

SeqInit ==
    /\ client = "sequential"
    /\ RollupInit
    /\ drive = <<>>
    /\ raw = NoRaw
    /\ written = NoWrite

\* the steps of a handler past its first await
Steps(h) ==
    \/ LockContext(h)
    \/ LockRollupFd(h)
    \/ \E ok \in BOOLEAN : DeviceReturn(h, ok)
    \/ \E disc \in Discriminators : FinishReturn(h, disc)
    \/ \E moved \in BOOLEAN : FinishError(h, moved)
    \/ \E ok \in BOOLEAN : HandleRollupRequests(h, ok)
    \/ \E moved \in BOOLEAN : Cancel(h, moved)

Next ==
    \E h \in Handlers :
        \/ \E d \in Destinations : voucher(h, d)
        \/ notice(h)
        \/ report(h)
        \/ gio(h)
        \/ exception(h)
        \/ \E s \in Statuses : finish(h, s)
        \/ Steps(h)

\* Concurrent connections send vouchers, notices, reports and finishes.  gio
\* and exception take the two locks exactly as report does and differ from it
\* in the device call only; they are served under SeqSpec.
ConcNext ==
    \E h \in Handlers :
        \/ \E d \in Destinations : voucher(h, d)
        \/ notice(h)
        \/ report(h)
        \/ \E s \in Statuses : finish(h, s)
        \/ Steps(h)

\* concurrent connections
Spec == Init /\ [][ConcNext]_vars

\* one sequential client, every endpoint, its last response observed
SeqSpec == SeqInit /\ [][Next]_vars

\* The connections of the liveness check send reports and finishes: a
\* recorder and the finish loop, contending for both locks.
LiveNext ==
    \E h \in Handlers :
        \/ report(h)
        \/ \E s \in Statuses : finish(h, s)
        \/ Steps(h)

\* async_mutex::Mutex is eventually fair: a waiter that finds the lock free
\* again and again gets it (strong fairness of the two lock steps).  A
\* device call that was issued returns, and the node eventually enqueues the
\* next request or the finish transaction fails (weak fairness).
Fairness ==
    \A h \in Handlers :
        /\ SF_vars(LockContext(h))
        /\ SF_vars(LockRollupFd(h))
        /\ WF_vars(\E ok \in BOOLEAN : DeviceReturn(h, ok))
        /\ WF_vars(\/ \E disc \in Discriminators : FinishReturn(h, disc)
                   \/ \E moved \in BOOLEAN : FinishError(h, moved))
        /\ WF_vars(\E ok \in BOOLEAN : HandleRollupRequests(h, ok))

\* concurrent connections under the scheduling the locks and the device give
LiveSpec == Init /\ [][LiveNext]_vars /\ Fairness

(***************************************************************************)
(* Raw state: the state drive                                              *)
(***************************************************************************)
\* bits of usize in the model
WordBits == 2
\* largest state drive, in bytes
MaxCapacity == 2
\* longest body of a raw_state_write, in bytes
MaxBody == 2

Word == 2 ^ WordBits
Words == 0..(Word - 1)
Bytes == 0..1
Drives == UNION {[1..n -> Bytes] : n \in 0..MaxCapacity}
Bodies == UNION {[1..n -> Bytes] : n \in 0..MaxBody}

\* what the environment decides: whether the drive opens, whether the
\* BLKGETSIZE64 ioctl works, whether a mapping of a writable file succeeds,
\* whether the flush of the mapping succeeds, and whether the build checks
\* arithmetic overflow
Envs == [open_ok : BOOLEAN, size_ok : BOOLEAN, map_ok : BOOLEAN,
         flush_ok : BOOLEAN, overflow_checks : BOOLEAN]

\* beside the rollup handlers a raw-state client sends one request of each
\* shape: the first byte, on a drive that works or that does not open
RawOffsets == IF client = "mixed" THEN {0} ELSE Words
RawSizes == IF client = "mixed" THEN {1} ELSE Words
RawBodies == IF client = "mixed" THEN {<<1>>} ELSE Bodies
RawEnvs ==
    IF client = "mixed"
    THEN {e \in Envs : e.size_ok /\ e.map_ok /\ e.flush_ok /\ e.overflow_checks}
    ELSE Envs

\* MmapMut::map_mut maps shared and writable: the file must be open for
\* reading and writing
MapMut(mode, env) == mode = "read_write" /\ env.map_ok

RawResponse(code) ==
    [code |-> code, outcome |-> "response", copied |-> FALSE, body |-> <<>>]

RawPanic == [code |-> 0, outcome |-> "panic", copied |-> FALSE, body |-> <<>>]

\* a + b in usize: a panic with overflow checks, wrapped without
UsizeAdd(a, b) == (a + b) % Word

Overflows(a, b) == a + b >= Word

\* &mmap[from..to]
Slice(mmap, from, to) == SubSeq(mmap, from + 1, to)

\* the body of raw_state_read after the path is parsed
RawStateRead(offset, size, env) ==
    IF ~ env.open_ok THEN RawResponse(500)
    ELSE IF ~ env.size_ok THEN RawResponse(500)
    ELSE IF ~ MapMut("read", env) THEN RawPanic
    ELSE IF Overflows(offset, size) /\ env.overflow_checks THEN RawPanic
    ELSE LET block_device_size == Len(drive)
             end == UsizeAdd(offset, size)
         IN  IF end > block_device_size THEN RawResponse(400)
             ELSE IF offset > end \/ end > Len(drive) THEN RawPanic
             ELSE [code |-> 200, outcome |-> "response", copied |-> TRUE,
                   body |-> Slice(drive, offset, end)]

\* the raw-state handlers going through the device handle
RawIdleAwaitsRollupFd == raw.op = "none" /\ RollupFdFree

\* one raw-state request at a time is observed
RawIdle == raw.op = "none"

\* the request as the handler met it
RawRequest(op, offset, size, payload, env, mode) ==
    [NoRaw EXCEPT !.op = op, !.offset = offset, !.size = size,
                  !.payload = payload, !.mode = mode,
                  !.env_ok = env.open_ok /\ env.size_ok /\ env.map_ok
                             /\ env.flush_ok,
                  !.fault = IF ~ env.open_ok THEN "open"
                            ELSE IF ~ env.size_ok THEN "size"
                            ELSE IF ~ MapMut(mode, env) THEN "map"
                            ELSE "none",
                  !.measured = env.open_ok /\ env.size_ok,
                  !.mapped = env.open_ok /\ env.size_ok /\ MapMut(mode, env),
                  !.with_device = dev_in_flight # {}]

raw_state_read(offset, size, env) ==
    LET out == RawStateRead(offset, size, env)
    IN  /\ RawIdle
        /\ raw' = [RawRequest("read", offset, size, <<>>, env, "read")
                      EXCEPT !.code = out.code, !.outcome = out.outcome,
                             !.copied = out.copied, !.body = out.body]
        /\ UNCHANGED <<drive, written, rollupVars>>

\* the drive rewritten up to the end of the body: what lay behind is lost
WriteWindowTruncate(mmap, offset, body) == SubSeq(mmap, 1, offset) \o body

\* mmap[offset..offset + body.len()].copy_from_slice(&body)
WriteWindow(mmap, offset, body) ==
    [i \in 1..Len(mmap) |->
        IF offset < i /\ i <= offset + Len(body) THEN body[i - offset]
        ELSE mmap[i]]

\* mmap.len(): the mapping spans the whole drive
MappedLen == Len(drive)

\* the body of raw_state_write after the path is parsed: the outcome and
\* the bytes of the drive afterwards
RawStateWrite(offset, body, env) ==
    LET untouched(r) == [r EXCEPT !.body = drive] @@ [flushed |-> FALSE]
    IN  IF ~ env.open_ok THEN untouched(RawResponse(500))
        ELSE IF ~ env.size_ok THEN untouched(RawResponse(500))
        ELSE IF ~ MapMut("read_write", env) THEN untouched(RawPanic)
        ELSE IF Overflows(offset, Len(body)) /\ env.overflow_checks
             THEN untouched(RawPanic)
        ELSE LET end == UsizeAdd(offset, Len(body))
             IN  IF end > MappedLen THEN untouched(RawResponse(400))
                 ELSE IF offset > end THEN untouched(RawPanic)
                 ELSE [code |-> IF env.flush_ok THEN 200 ELSE 0,
                       outcome |-> IF env.flush_ok THEN "response" ELSE "panic",
                       copied |-> TRUE, flushed |-> env.flush_ok,
                       body |-> WriteWindow(drive, offset, body)]

raw_state_write(offset, body, env) ==
    LET out == RawStateWrite(offset, body, env)
    IN  /\ RawIdle
        /\ raw' = [RawRequest("write", offset, Len(body), body, env,
                              "read_write")
                      EXCEPT !.code = out.code, !.outcome = out.outcome,
                             !.copied = out.copied, !.flushed = out.flushed,
                             !.fault = IF out.copied /\ ~ out.flushed
                                       THEN "flush" ELSE @]
        /\ drive' = out.body
        /\ written' = IF out.copied
                      THEN [offset |-> offset, body |-> body, done |-> TRUE,
                            ok |-> out.code = 200]
                      ELSE written
        /\ UNCHANGED rollupVars

\* lib.rs get_blkgetsize64 behind get_block_device_size: the capacity
BlockDeviceSize == Len(drive)

\* the body of raw_state_size
RawStateSize(env) ==
    IF ~ env.open_ok THEN RawResponse(500) @@ [answer |-> -1]
    ELSE IF ~ env.size_ok THEN RawResponse(500) @@ [answer |-> -1]
    ELSE RawResponse(200) @@ [answer |-> BlockDeviceSize]

raw_state_size(env) ==
    LET out == RawStateSize(env)
    IN  /\ RawIdle
        /\ raw' = [RawRequest("size", 0, 0, <<>>, env, "read")
                      EXCEPT !.mapped = FALSE, !.code = out.code,
                             !.fault = IF @ = "map" THEN "none" ELSE @,
                             !.outcome = out.outcome, !.answer = out.answer]
        /\ UNCHANGED <<drive, written, rollupVars>>

\* the client has its answer (or lost its connection to a panic) and may
\* send the next raw-state request
RawDone ==
    /\ raw.op # "none"
    /\ raw' = NoRaw
    /\ UNCHANGED <<drive, written, rollupVars>>

RawInit ==
    /\ client = "concurrent"
    /\ RollupInit
    /\ drive \in Drives
    /\ raw = NoRaw
    /\ written = NoWrite

RawNext ==
    \/ /\ RawIdle
       /\ \E offset \in RawOffsets, size \in RawSizes, env \in RawEnvs :
              raw_state_read(offset, size, env)
    \/ /\ RawIdle
       /\ \E offset \in RawOffsets, body \in RawBodies, env \in RawEnvs :
              raw_state_write(offset, body, env)
    \/ /\ RawIdle
       /\ \E env \in RawEnvs : raw_state_size(env)
    \/ RawDone

\* raw-state requests alone
SpecRaw == RawInit /\ [][RawNext]_vars

\* a one-byte drive beside the rollup handlers
MixInit ==
    /\ client = "mixed"
    /\ RollupInit
    /\ drive = <<0>>
    /\ raw = NoRaw
    /\ written = NoWrite

\* gio and finish on the rollup device, the raw-state requests on the drive
MixNext ==
    \/ \E h \in Handlers :
           \/ gio(h)
           \/ \E s \in Statuses : finish(h, s)
           \/ Steps(h)
    \/ RawNext

\* raw-state requests while rollup handlers hold and await the locks
MixSpec == MixInit /\ [][MixNext]_vars

(***************************************************************************)
(* Properties                                                              *)
(***************************************************************************)
AllIdle == \A h \in Handlers : pc[h] = "idle"

LocksFree == RollupFdFree /\ \A w \in Workers : ContextFree(w)

InFinishTransaction(h) == pc[h] \in {"finish_request", "handle_requests"}

\* C1: device transactions never overlap: at most one handler has a device
\* transaction in progress, and it is the holder of the rollup_fd lock, so
\* the next transaction begins only after the holder's has completed.
C1_NoOverlap ==
    /\ Cardinality(dev_in_flight) <= 1
    /\ \A h \in dev_in_flight : rollup_fd_lock = h

\* C1 witness: a handler is inside its device transaction while a handler
\* of another worker, holding its own Context lock, waits for rollup_fd.
C1_Witness ==
    \E h \in Handlers, g \in Handlers :
        /\ WorkerOf(h) # WorkerOf(g)
        /\ pc[h] = "device"
        /\ h \in dev_in_flight
        /\ pc[g] = "lock_rollup_fd"
        /\ context_lock[WorkerOf(g)] = g

\* C2: finish with status "accept" hands true to the device's finish
\* transaction and "reject" hands false; any other status is answered 400
\* with no lock acquired and no device call.
C2_FinishStatus ==
    /\ \A h \in Handlers :
           (req[h].kind = "finish" /\ trace[h].calls > 0) =>
               \/ req[h].status = "accept" /\ trace[h].accept = "true"
               \/ req[h].status = "reject" /\ trace[h].accept = "false"
    /\ last.req.kind = "finish" =>
           CASE last.req.status = "accept" ->
                    last.trace.calls > 0 => last.trace.accept = "true"
             [] last.req.status = "reject" ->
                    last.trace.calls > 0 => last.trace.accept = "false"
             [] OTHER ->
                    /\ last.resp.code = 400
                    /\ last.trace.acq = 0
                    /\ last.trace.calls = 0

\* C2 witness: a finish with another literal was just answered 400, and a
\* finish("reject") is now parked in the device with accept = false.
C2_Witness ==
    /\ last.req.kind = "finish"
    /\ last.req.status = "Accept"
    /\ last.resp.code = 400
    /\ \E h \in Handlers :
           /\ pc[h] = "finish_request"
           /\ req[h].status = "reject"
           /\ trace[h].accept = "false"

\* C3: while a finish transaction is in progress (rollup_fd acquired, the
\* wait for the next request, up to the payload read) its handler holds the
\* rollup_fd lock and no other device transaction begins.
C3_FinishExclusive ==
    [][\A h \in Handlers :
           InFinishTransaction(h) =>
               /\ rollup_fd_lock = h
               /\ dev_in_flight = {h}
               /\ dev_in_flight' \subseteq dev_in_flight]_vars

\* C3 witness: a finish transaction is between the device's finish call and
\* the payload read while a recorder and a second finish wait for rollup_fd
\* or for their worker's Context.
C3_Witness ==
    \E h \in Handlers, g \in Handlers, k \in Handlers :
        /\ pc[h] = "handle_requests"
        /\ pc[g] = "lock_rollup_fd"
        /\ req[g].kind \in {"voucher", "notice", "report", "gio", "exception"}
        /\ k # h
        /\ req[k].kind = "finish"
        /\ pc[k] \in {"lock_context", "lock_rollup_fd"}

\* the destinations C4 speaks of
Malformed(destination) ==
    \/ Len(destination) # 2 * CARTESI_ROLLUP_ADDRESS_SIZE + 2
    \/ Len(destination) < 2
    \/ destination[1] # "0"
    \/ destination[2] # "x"

\* C4: a voucher whose destination lacks the 0x prefix or has another
\* length than 2*ADDRESS_SIZE+2 is answered 400, with no lock acquired and
\* no device call; no such voucher is ever past the check.
C4_MalformedVoucher ==
    /\ (last.req.kind = "voucher" /\ Malformed(last.req.destination)) =>
           /\ last.resp.code = 400
           /\ last.trace.acq = 0
           /\ last.trace.calls = 0
    /\ \A h \in Handlers :
           req[h].kind = "voucher" => ~ Malformed(req[h].destination)

\* C4 witness: a voucher of the right length without the 0x prefix was
\* answered 400.
C4_Witness ==
    /\ last.req.kind = "voucher"
    /\ last.req.destination = NoPrefixDest
    /\ last.resp.code = 400
    /\ AllIdle

HexDigits ==
    {"0", "1", "2", "3", "4", "5", "6", "7", "8", "9",
     "a", "b", "c", "d", "e", "f", "A", "B", "C", "D", "E", "F"}

HexAddress(destination) ==
    /\ ~ Malformed(destination)
    /\ \A i \in 3..Len(destination) : destination[i] \in HexDigits

\* C5: every voucher for which rollup_write_voucher is called has a
\* destination that is 0x-prefixed hexadecimal of 2*ADDRESS_SIZE+2
\* characters.
C5_OnlyHexReachesDevice ==
    \A h \in Handlers :
        (req[h].kind = "voucher" /\ pc[h] = "device") =>
            HexAddress(req[h].destination)

\* C6: once the finish transaction returned a discriminator, the handler
\* reads the payload of that kind and a 200 carries "advance_state" for 0
\* and "inspect_state" for 1; any other discriminator is answered 400
\* without a read, and the locks are free for the next finish.
C6_Discriminator ==
    (last.req.kind = "finish" /\ last.trace.disc # -1 /\ last.resp.code # 0) =>
        /\ last.trace.disc = 0 =>
               /\ last.trace.read = "advance"
               /\ last.trace.calls = 2
               /\ last.resp.code \in {200, 400}
               /\ last.resp.code = 200 => last.resp.request_type = "advance_state"
        /\ last.trace.disc = 1 =>
               /\ last.trace.read = "inspect"
               /\ last.trace.calls = 2
               /\ last.resp.code \in {200, 400}
               /\ last.resp.code = 200 => last.resp.request_type = "inspect_state"
        /\ last.trace.disc \notin {0, 1} =>
               /\ last.trace.read = "none"
               /\ last.trace.calls = 1
               /\ last.resp.code = 400
               /\ AllIdle => LocksFree

\* C6 witness: a finish was answered 400 for discriminator 2 and the next
\* finish has acquired the device and got an inspect request announced.
C6_Witness ==
    /\ last.req.kind = "finish"
    /\ last.trace.disc = 2
    /\ last.resp.code = 400
    /\ \E h \in Handlers :
           /\ pc[h] = "handle_requests"
           /\ trace[h].disc = 1
           /\ rollup_fd_lock = h

\* C7: a handler that has ended, by success, by a device error or by
\* cancellation, holds neither its Context lock nor the rollup_fd lock.
C7_GuardsReleased ==
    /\ \A h \in Handlers :
           pc[h] = "idle" =>
               /\ rollup_fd_lock # h
               /\ \A w \in Workers : context_lock[w] # h
    /\ AllIdle => LocksFree

\* C7 witness: a finish handler was cancelled after its finish transaction
\* had returned (no response was sent), and every lock is free.
C7_Witness ==
    /\ last.req.kind = "finish"
    /\ last.trace.disc \in {0, 1}
    /\ last.resp.code = 0
    /\ AllIdle
    /\ LocksFree

\* C8: within one processing cycle the indices answered to successful
\* vouchers strictly increase and the first is 0; each new cycle starts
\* again at 0.
C8_VoucherIndices ==
    in_cycle =>
        /\ cycle_indices # <<>> => cycle_indices[1] = 0
        /\ \A i \in 1..Len(cycle_indices), j \in 1..Len(cycle_indices) :
               i < j => cycle_indices[i] < cycle_indices[j]

\* C8 witness: two vouchers were answered in the current cycle.
C8_Witness ==
    /\ in_cycle
    /\ Len(cycle_indices) >= 2

\* C10: a raw_state_read whose offset + size exceeds the capacity the drive
\* reported is answered 400 and copies nothing out of the mapping.
C10_ReadOutOfBounds ==
    (raw.op = "read" /\ raw.measured /\ raw.offset + raw.size > Len(drive)) =>
        /\ raw.code = 400
        /\ ~ raw.copied

Waiting(h) == pc[h] \in {"lock_context", "lock_rollup_fd"}

\* C9: a handler waiting for the device handle eventually holds the
\* rollup_fd lock (or its client has disconnected and its future is gone),
\* whatever handlers arrive after it, given that every holder's device
\* transaction finishes.
C9_NoStarvation ==
    \A h \in Handlers :
        Waiting(h) ~> (rollup_fd_lock = h \/ pc[h] = "idle")

\* C9 witness: a handler waits for its worker's Context lock, whose holder
\* waits for rollup_fd, which a parked finish transaction holds.
C9_Witness ==
    \E h \in Handlers, g \in Handlers, k \in Handlers :
        /\ pc[h] = "lock_context"
        /\ WorkerOf(g) = WorkerOf(h)
        /\ pc[g] = "lock_rollup_fd"
        /\ context_lock[WorkerOf(h)] = g
        /\ pc[k] = "finish_request"
        /\ rollup_fd_lock = k

(***************************************************************************)
(* Raw-state properties                                                    *)
(***************************************************************************)
\* the drive opens, reports its capacity, maps when writable, and flushes
RawHealthy == raw.env_ok

\* C11: after a successful raw_state_write(offset, B), with no later write
\* copied into the drive, a raw_state_read(offset, len(B)) on a working
\* drive is answered 200 with exactly the bytes B.
C11_WriteThenRead ==
    ( /\ raw.op = "read"
      /\ RawHealthy
      /\ written.done
      /\ written.ok
      /\ raw.offset = written.offset
      /\ raw.size = Len(written.body) ) =>
        /\ raw.code = 200
        /\ raw.body = written.body

\* C12: raw_state_read opens the drive read-write, and on a working drive
\* an in-bounds read is answered 200 with the bytes of the requested window.
C12_ReadOpensReadWrite ==
    raw.op = "read" =>
        /\ raw.mode = "read_write"
        /\ (RawHealthy /\ raw.offset + raw.size <= Len(drive)) =>
               /\ raw.code = 200
               /\ raw.copied
               /\ raw.body = Slice(drive, raw.offset, raw.offset + raw.size)

\* C13: a raw_state_read or raw_state_write that cannot open the drive,
\* cannot map it, or whose flush fails, is answered 500: the handler ends
\* with a response.
C13_ResourceErrors ==
    (raw.op \in {"read", "write"} /\ raw.fault \in {"open", "map", "flush"}) =>
        /\ raw.outcome = "response"
        /\ raw.code = 500

\* C14: a raw_state_write whose offset + len(body) exceeds the mapped
\* length is answered 400, with nothing copied into the drive and no flush.
C14_WriteOutOfBounds ==
    ( /\ raw.op = "write"
      /\ raw.mapped
      /\ raw.offset + Len(raw.payload) > Len(drive) ) =>
        /\ raw.outcome = "response"
        /\ raw.code = 400
        /\ ~ raw.copied
        /\ ~ raw.flushed

\* C16: raw_state_size answers the capacity the drive reports, and no
\* raw-state request changes that capacity.
C16_SizeIsCapacity ==
    /\ [](( raw.op = "size" /\ raw.measured ) =>
              /\ raw.code = 200
              /\ raw.answer = Len(drive))
    /\ [][Len(drive') = Len(drive)]_vars

\* C16 witness: the size is answered after a write changed bytes of the
\* drive.
C16_Witness ==
    /\ raw.op = "size"
    /\ raw.code = 200
    /\ raw.answer = Len(drive)
    /\ written.done
    /\ written.ok
    /\ Len(written.body) > 0

\* C19: with the drive mapped, bytes are copied only if the true sum
\* offset + size is within the capacity, and every request whose true sum
\* exceeds it is answered 400, also when the sum does not fit the word.
C19_BoundsSound ==
    (raw.op \in {"read", "write"} /\ raw.mapped) =>
        /\ raw.copied => raw.offset + raw.size <= Len(drive)
        /\ raw.offset + raw.size > Len(drive) =>
               /\ raw.outcome = "response"
               /\ raw.code = 400

\* a finish handler holds the device handle and awaits the next request
FinishParked(h) == pc[h] = "finish_request" /\ rollup_fd_lock = h

\* C15: a raw-state request never waits for a lock: whatever the state of
\* the Context locks and of rollup_fd, each of the three handlers can run,
\* and it has run to its end in one step, leaving locks and rollup handlers
\* as they were.
C15_RawTakesNoLock ==
    /\ raw.op = "none" =>
           /\ ENABLED (\E env \in RawEnvs : raw_state_size(env))
           /\ ENABLED (\E offset \in RawOffsets, size \in RawSizes,
                          env \in RawEnvs : raw_state_read(offset, size, env))
           /\ ENABLED (\E offset \in RawOffsets, body \in RawBodies,
                          env \in RawEnvs : raw_state_write(offset, body, env))
    /\ raw.op # "none" => raw.outcome \in {"response", "panic"}

\* C15 witness: a write was answered 200 while a finish handler is parked
\* with the device handle and another handler waits for it.
C15_Witness ==
    /\ raw.op = "write"
    /\ raw.code = 200
    /\ raw.with_device
    /\ drive = <<1>>
    /\ \E h \in Handlers, g \in Handlers :
           /\ FinishParked(h)
           /\ pc[g] = "lock_rollup_fd"

\* C17 as stated: the size query is one of the serialised transactions: none
\* executes while a rollup-device transaction is in flight.
C17_SizeQuerySerialised ==
    /\ Cardinality(dev_in_flight) <= 1
    /\ raw.op = "size" => ~ raw.with_device

\* C17 amended: at no instant are two of finish, recorder write and gio in
\* flight; the size query is a query of the state drive outside that
\* exclusion and is answered whether or not a transaction is in flight.
C17_RollupSerialisedSizeFree ==
    /\ Cardinality(dev_in_flight) <= 1
    /\ \A h \in dev_in_flight :
           /\ rollup_fd_lock = h
           /\ req[h].kind \in {"finish", "gio", "voucher", "notice", "report",
                                "exception"}
    /\ (raw.op = "size" /\ raw.measured) =>
           /\ raw.code = 200
           /\ raw.answer = Len(drive)
    /\ raw.op = "none" => ENABLED (\E env \in RawEnvs : raw_state_size(env))

\* C17 witness: the size was answered while a finish transaction is parked.
C17_Witness ==
    /\ raw.op = "size"
    /\ raw.code = 200
    /\ raw.with_device
    /\ \E h \in Handlers : FinishParked(h) /\ dev_in_flight = {h}

\* C18: a successful voucher or notice write is answered 201 with the index
\* the device assigned, a successful report, exception or gio 202, a
\* successful finish 200; a failure of the device is answered 400 and
\* leaves both locks free for the next request.
C18_StatusCodes ==
    LET kind == last.req.kind
        dev == last.trace.dev
    IN  /\ (kind \in {"voucher", "notice"} /\ dev = "ok") =>
               /\ last.resp.code = 201
               /\ last.resp.index = last.trace.dev_index
               /\ last.resp.index >= 0
        /\ (kind \in {"report", "exception", "gio"} /\ dev = "ok") =>
               last.resp.code = 202
        /\ (kind = "finish" /\ dev = "ok") => last.resp.code = 200
        /\ dev = "error" => last.resp.code = 400
        /\ (dev = "error" /\ AllIdle) => LocksFree
        /\ (last.after_failure /\ last.resp.code # 0) =>
               \/ dev = "ok" /\ last.resp.code \in {200, 201, 202}
               \/ last.resp.code = 400

\* C18 witness: a voucher failed in the device and the next voucher was
\* answered 201 with its index.
C18_Witness ==
    /\ last.req.kind = "voucher"
    /\ last.after_failure
    /\ last.resp.code = 201
    /\ last.resp.index = 1

\* the holder of rollup_fd can end a device call
HolderCanRun(h) ==
    /\ rollup_fd_lock = h
    /\ ENABLED ( \/ \E ok \in BOOLEAN : DeviceReturn(h, ok)
                 \/ \E disc \in Discriminators : FinishReturn(h, disc)
                 \/ \E moved \in BOOLEAN : FinishError(h, moved)
                 \/ \E ok \in BOOLEAN : HandleRollupRequests(h, ok) )

\* C20: locks are taken Context first, rollup_fd second, and never one the
\* handler holds; whenever handlers wait for a lock, a waiter can take its
\* lock or the holder of rollup_fd can end its device call and release.
C20_NoDeadlock ==
    /\ \A h \in Handlers :
           /\ rollup_fd_lock = h => context_lock[WorkerOf(h)] = h
           /\ pc[h] = "lock_context" =>
                  /\ context_lock[WorkerOf(h)] # h
                  /\ rollup_fd_lock # h
           /\ pc[h] = "lock_rollup_fd" =>
                  /\ context_lock[WorkerOf(h)] = h
                  /\ rollup_fd_lock # h
    /\ (\E h \in Handlers : Waiting(h)) =>
           \E g \in Handlers :
               \/ ENABLED LockContext(g)
               \/ ENABLED LockRollupFd(g)
               \/ HolderCanRun(g)

\* C20 witness: every handler is caught in the two levels: one holds both
\* locks inside a recorder's write, one of its worker waits for the
\* Context, one of another worker holds its Context and waits for rollup_fd.
C20_Witness ==
    \E h \in Handlers, g \in Handlers, k \in Handlers :
        /\ pc[k] = "device"
        /\ rollup_fd_lock = k
        /\ context_lock[WorkerOf(k)] = k
        /\ pc[h] = "lock_context"
        /\ WorkerOf(h) = WorkerOf(k)
        /\ pc[g] = "lock_rollup_fd"
        /\ context_lock[WorkerOf(g)] = g

====
